---- MODULE Spec2Model ----
(***************************************************************************)
(* Model of doc/source/conf.py of ansys/aali-flowkit: the Sphinx           *)
(* configuration module.  Sphinx executes the module top to bottom once    *)
(* per documentation build; every statement of the module is one action.  *)
(*                                                                         *)
(* State: the external world the module reads (the VERSION file, the       *)
(* process environment, the clock), the interpreter's position (pc), the   *)
(* module namespace (ns: the names bound so far and their values), the     *)
(* file object f, the exception that ended the load, and two logs: the     *)
(* external accesses made (io) and the names stored (stores).  To compare  *)
(* two loads, the outcome of the previous build is kept in prev.           *)
(*                                                                         *)
(* Text the code scans character by character (the VERSION file, the       *)
(* version strings) is a sequence of one-character strings; text the code  *)
(* only concatenates (host names, URLs, titles) is a string.               *)
(***************************************************************************)
EXTENDS Integers, Sequences, FiniteSets, TLC

VARIABLES fs, environ, clock, pc, ns, f, exc, io, stores, prev, build

vars == <<fs, environ, clock, pc, ns, f, exc, io, stores, prev, build>>

\* Number of documentation builds (loads of conf.py) in one behaviour.
MaxBuilds == 2

(***************************************************************************)
(* The external world.                                                     *)
(***************************************************************************)

\* os.path.join("..", "..", "VERSION")
VersionPath == "../../VERSION"

\* The variable looked up by os.getenv.
CnameKey == "DOCUMENTATION_CNAME"

\* The fallback of os.getenv.
DefaultCname == "laughing-guide-5m1lvq6.pages.github.io"

\* What str.strip() removes (the ASCII whitespace of the modelled alphabet).
Whitespace == {" ", "\t", "\n", "\r", "\f"}

\* Line endings of a file opened in text mode with universal newlines.
Terminators == {"\n", "\r"}

\* The VERSION file: absent, present but not decodable as text, or text.
AbsentFile == [kind |-> "absent", data |-> <<>>]

UndecodableFile == [kind |-> "undecodable", data |-> <<>>]

TextFile(data) == [kind |-> "text", data |-> data]

VersionTexts ==
    { <<>>,
      <<"1", ".", "2", ".", "3", "\n">>,
      <<" ", " ", "1", ".", "2", ".", "3", " ", "\t", "\n", "9", ".", "9", "\n">>,
      <<"1", ".", "2", ".", "3">>,
      <<"0", ".", "1", ".", "d", "e", "v", "0", "\n">>,
      <<"1", "\n">>,
      <<"1", " ", ".", "2", "\r", "\n", "x">>,
      <<"\n", "1", ".", "2", ".", "3", "\n">>,
      <<"1", ".", "2", "\r", "3", ".", "4", "\n">> }

Files == {AbsentFile, UndecodableFile} \cup {TextFile(d) : d \in VersionTexts}

\* Process environments: the variable unset, set, set to the empty string.
NoEnv == [k \in {} |-> ""]

Envs == { NoEnv,
          (CnameKey :> "flowkit.docs.example.com"),
          (CnameKey :> "") }

\* datetime.now().year
Years == {2025, 2026}

(***************************************************************************)
(* Library functions, computed as the library computes them.               *)
(***************************************************************************)

\* Index of the first line terminator of data at or after i, Len(data)+1 if none.
RECURSIVE ScanLine(_, _)
ScanLine(data, i) ==
    IF i > Len(data) THEN Len(data) + 1
    ELSE IF data[i] \in Terminators THEN i
    ELSE ScanLine(data, i + 1)

\* A mutation of readline: f.read(), the rest of the file.
read(data, pos) ==
    [line |-> SubSeq(data, pos, Len(data)), pos |-> Len(data) + 1]

\* f.readline() on a text-mode file at position pos: the text up to and
\* including the next line ending ("\n", "\r" or "\r\n", returned as "\n"), or
\* the rest of the file when there is none; "" at end of file.
readline(data, pos) ==
    LET e == ScanLine(data, pos) IN
    IF e > Len(data)
    THEN [line |-> SubSeq(data, pos, Len(data)), pos |-> Len(data) + 1]
    ELSE [line |-> SubSeq(data, pos, e - 1) \o <<"\n">>,
          pos  |-> IF data[e] = "\r" /\ e < Len(data) /\ data[e + 1] = "\n"
                   THEN e + 2 ELSE e + 1]

RECURSIVE lstrip(_)
lstrip(s) ==
    IF s # <<>> /\ Head(s) \in Whitespace THEN lstrip(Tail(s)) ELSE s

RECURSIVE rstrip(_)
rstrip(s) ==
    IF s # <<>> /\ s[Len(s)] \in Whitespace
    THEN rstrip(SubSeq(s, 1, Len(s) - 1)) ELSE s

\* A mutation of strip: only trailing whitespace is removed.
strip_trailing_only(s) == rstrip(s)

\* str.strip()
strip(s) == lstrip(rstrip(s))

\* str.split(sep) for a one-character sep: always at least one component.
RECURSIVE split(_, _)
split(s, sep) ==
    LET RECURSIVE Cut(_)
        Cut(i) == IF i > Len(s) THEN 0
                  ELSE IF s[i] = sep THEN i ELSE Cut(i + 1)
        c == Cut(1)
    IN  IF c = 0 THEN <<s>>
        ELSE <<SubSeq(s, 1, c - 1)>> \o split(SubSeq(s, c + 1, Len(s)), sep)

\* str.endswith(suffix)
endswith(s, suffix) ==
    /\ Len(s) >= Len(suffix)
    /\ SubSeq(s, Len(s) - Len(suffix) + 1, Len(s)) = suffix

\* str(n) for n >= 0
Digit(d) ==
    CASE d = 0 -> "0" [] d = 1 -> "1" [] d = 2 -> "2" [] d = 3 -> "3"
      [] d = 4 -> "4" [] d = 5 -> "5" [] d = 6 -> "6" [] d = 7 -> "7"
      [] d = 8 -> "8" [] d = 9 -> "9"

RECURSIVE str(_)
str(n) == IF n < 10 THEN Digit(n) ELSE str(n \div 10) \o Digit(n % 10)

\* ansys_sphinx_theme.get_version_match(semver), imported at line 28 and
\* called at line 40.  The helper lives in the theme package, outside this
\* repository; it is modelled by what the package does:
\*     if semver.endswith("dev0"): return "dev"
\*     major, minor, *_ = semver.split(".")
\*     return ".".join([major, minor])
\* The unpacking raises ValueError when there are fewer than two components.
get_version_match(semver) ==
    LET parts == split(semver, ".") IN
    IF endswith(semver, <<"d", "e", "v", "0">>)
    THEN [raised |-> "", value |-> <<"d", "e", "v">>]
    ELSE IF Len(parts) < 2
    THEN [raised |-> "ValueError", value |-> <<>>]
    ELSE [raised |-> "", value |-> parts[1] \o <<".">> \o parts[2]]

\* A mutation of getenv: the default is dropped (None, here "") when unset.
getenv_no_default(env, key, default) ==
    IF key \in DOMAIN env THEN env[key] ELSE ""

\* A mutation of getenv: os.getenv(key) or default.
getenv_or_default(env, key, default) ==
    IF key \in DOMAIN env /\ env[key] # "" THEN env[key] ELSE default

\* os.getenv(key, default)
getenv(env, key, default) ==
    IF key \in DOMAIN env THEN env[key] ELSE default

(***************************************************************************)
(* The interpreter.                                                        *)
(***************************************************************************)

NoNames == [k \in {} |-> ""]

\* name = value in the module namespace
Bind(space, name, value) ==
    [k \in DOMAIN space \cup {name} |-> IF k = name THEN value ELSE space[k]]

NoFile == [state |-> "unbound", pos |-> 0]

Event(op, arg) == [op |-> op, arg |-> arg]

Terminated == pc \in {"done", "failed"}

\* The outcome of a load, kept for comparison with the next one.
Snapshot ==
    [fs |-> fs, environ |-> environ, clock |-> clock,
     pc |-> pc, ns |-> ns, exc |-> exc]

Init ==
    /\ fs \in Files
    /\ environ \in Envs
    /\ clock \in Years
    /\ pc = "project"
    /\ ns = NoNames
    /\ f = NoFile
    /\ exc = ""
    /\ io = <<>>
    /\ stores = <<>>
    /\ prev = <<>>
    /\ build = 1

World == <<fs, environ, clock, prev, build>>

\* A statement that binds names to values, reads nothing and cannot raise.
Assign(at, next, names, value) ==
    /\ pc = at
    /\ pc' = next
    /\ ns' = [k \in DOMAIN ns \cup {names[i] : i \in 1..Len(names)} |->
                 IF \E i \in 1..Len(names) : names[i] = k THEN value ELSE ns[k]]
    /\ stores' = stores \o names
    /\ UNCHANGED <<f, exc, io, World>>

\* An uncaught exception: the load stops and the error reaches the caller.
Raise(e) ==
    /\ pc' = "failed"
    /\ exc' = e

(***************************************************************************)
(* The statements of conf.py, in order.                                    *)
(***************************************************************************)

\* line 31: project = "aali-flowkit"
Set_project ==
    Assign("project", "copyright", <<"project">>, "aali-flowkit")

\* line 32: copyright = f"(c) {datetime.now().year} ANSYS, Inc. All rights reserved"
Set_copyright ==
    /\ pc = "copyright"
    /\ pc' = "author"
    /\ io' = Append(io, Event("now", "clock"))
    /\ ns' = Bind(ns, "copyright",
                  "(c) " \o str(clock) \o " ANSYS, Inc. All rights reserved")
    /\ stores' = Append(stores, "copyright")
    /\ UNCHANGED <<f, exc, World>>

\* line 33: author = "ANSYS, Inc."
Set_author ==
    Assign("author", "open", <<"author">>, "ANSYS, Inc.")

\* A mutation of Open_VERSION: a missing file is replaced by a default version.
Open_VERSION_or_default ==
    /\ pc = "open"
    /\ io' = Append(io, Event("open(r)", VersionPath))
    /\ IF fs.kind = "absent"
       THEN /\ pc' = "release"
            /\ ns' = Bind(ns, "version_file", <<"0", ".", "0", ".", "0">>)
            /\ stores' = Append(stores, "version_file")
            /\ UNCHANGED <<f, exc>>
       ELSE /\ pc' = "readline"
            /\ f' = [state |-> "open", pos |-> 1]
            /\ stores' = Append(stores, "f")
            /\ UNCHANGED <<ns, exc>>
    /\ UNCHANGED World

\* line 36: with open(os.path.join("..", "..", "VERSION"), "r") as f:
\* open() raises FileNotFoundError when the file is absent; nothing is caught.
Open_VERSION ==
    /\ pc = "open"
    /\ io' = Append(io, Event("open(r)", VersionPath))
    /\ IF fs.kind = "absent"
       THEN /\ Raise("FileNotFoundError")
            /\ UNCHANGED <<f, stores>>
       ELSE /\ pc' = "readline"
            /\ f' = [state |-> "open", pos |-> 1]
            /\ stores' = Append(stores, "f")
            /\ UNCHANGED exc
    /\ UNCHANGED <<ns, World>>

\* line 37: version_file = f.readline().strip()
\* Decoding the file's bytes may raise; the exception is pending while the
\* with statement exits.
Set_version_file ==
    /\ pc = "readline"
    /\ pc' = "exit_with"
    /\ io' = Append(io, Event("readline", VersionPath))
    /\ IF fs.kind = "undecodable"
       THEN /\ exc' = "UnicodeDecodeError"
            /\ UNCHANGED <<ns, f, stores>>
       ELSE LET r == readline(fs.data, f.pos) IN
            /\ f' = [f EXCEPT !.pos = r.pos]
            /\ ns' = Bind(ns, "version_file", strip(r.line))
            /\ stores' = Append(stores, "version_file")
            /\ UNCHANGED exc
    /\ UNCHANGED World

\* A mutation of Exit_with: the file is left open.
Exit_with_no_close ==
    /\ pc = "exit_with"
    /\ pc' = IF exc # "" THEN "failed" ELSE "release"
    /\ UNCHANGED <<f, io, ns, exc, stores, World>>

\* lines 36-37: leaving the with block closes f, then a pending exception
\* propagates.
Exit_with ==
    /\ pc = "exit_with"
    /\ f' = [f EXCEPT !.state = "closed"]
    /\ io' = Append(io, Event("close", VersionPath))
    /\ pc' = IF exc # "" THEN "failed" ELSE "release"
    /\ UNCHANGED <<ns, exc, stores, World>>

\* line 39: release = version = version_file
Set_release_version ==
    Assign("release", "switcher_version", <<"release", "version">>,
           ns["version_file"])

\* line 40: switcher_version = get_version_match(version_file)
Set_switcher_version ==
    /\ pc = "switcher_version"
    /\ LET r == get_version_match(ns["version_file"]) IN
       IF r.raised # ""
       THEN /\ Raise(r.raised)
            /\ UNCHANGED <<ns, stores>>
       ELSE /\ pc' = "cname"
            /\ ns' = Bind(ns, "switcher_version", r.value)
            /\ stores' = Append(stores, "switcher_version")
            /\ UNCHANGED exc
    /\ UNCHANGED <<f, io, World>>

\* A mutation of Set_cname: os.environ["DOCUMENTATION_CNAME"], a KeyError
\* when the variable is unset.
Set_cname_environ ==
    /\ pc = "cname"
    /\ io' = Append(io, Event("getenv", CnameKey))
    /\ IF CnameKey \in DOMAIN environ
       THEN /\ pc' = "html_theme"
            /\ ns' = Bind(ns, "cname", environ[CnameKey])
            /\ stores' = Append(stores, "cname")
            /\ UNCHANGED exc
       ELSE /\ Raise("KeyError")
            /\ UNCHANGED <<ns, stores>>
    /\ UNCHANGED <<f, World>>

\* line 41: cname = os.getenv("DOCUMENTATION_CNAME", "laughing-guide-5m1lvq6.pages.github.io")
Set_cname ==
    /\ pc = "cname"
    /\ pc' = "html_theme"
    /\ io' = Append(io, Event("getenv", CnameKey))
    /\ ns' = Bind(ns, "cname", getenv(environ, CnameKey, DefaultCname))
    /\ stores' = Append(stores, "cname")
    /\ UNCHANGED <<f, exc, World>>

\* line 45: html_theme = "ansys_sphinx_theme"
Set_html_theme ==
    Assign("html_theme", "html_title", <<"html_theme">>, "ansys_sphinx_theme")

\* A mutation of Set_html_title: the title carries the version.
Set_html_title_versioned ==
    Assign("html_title", "html_logo", <<"html_short_title", "html_title">>,
           <<ns["project"], ns["version"]>>)

\* line 46: html_short_title = html_title = project
Set_html_title ==
    Assign("html_title", "html_logo", <<"html_short_title", "html_title">>,
           ns["project"])

\* line 47: html_logo = ansys_logo_black (a constant of the theme package)
Set_html_logo ==
    Assign("html_logo", "html_favicon", <<"html_logo">>, "ansys_logo_black")

\* line 48: html_favicon = ansys_favicon (a constant of the theme package)
Set_html_favicon ==
    Assign("html_favicon", "html_context", <<"html_favicon">>, "ansys_favicon")

\* lines 49-54: html_context = {...}
Set_html_context ==
    Assign("html_context", "html_theme_options", <<"html_context">>,
           [github_user |-> "ansys", github_repo |-> "aali-flowkit",
            github_version |-> "main", doc_path |-> "doc/source"])

\* The options of lines 55-68 for a host name and a switcher token.
ThemeOptions(host, token) ==
    [github_url |-> "https://github.com/ansys/aali-flowkit",
     additional_breadcrumbs |-> << <<"Aali", "https://aali.docs.ansys.com/">> >>,
     switcher |-> [json_url |-> "https://" \o host \o "/versions.json",
                   version_match |-> token],
     check_switcher |-> FALSE,
     show_prev_next |-> FALSE,
     show_breadcrumbs |-> TRUE,
     use_edit_page_button |-> TRUE]

\* A mutation of Set_html_theme_options: the host name is hard-coded and the
\* switcher matches the full version.
Set_html_theme_options_hard_coded ==
    Assign("html_theme_options", "extensions", <<"html_theme_options">>,
           ThemeOptions(DefaultCname, ns["version"]))

\* lines 55-68: html_theme_options = {...}
Set_html_theme_options ==
    Assign("html_theme_options", "extensions", <<"html_theme_options">>,
           ThemeOptions(ns["cname"], ns["switcher_version"]))

\* lines 71-75: extensions = [...]
Set_extensions ==
    Assign("extensions", "templates_path", <<"extensions">>,
           <<"sphinx_design", "sphinx_copybutton", "myst_parser">>)

\* line 79: templates_path = ["_templates"]
Set_templates_path ==
    Assign("templates_path", "source_suffix_1", <<"templates_path">>,
           <<"_templates">>)

\* line 82: source_suffix = ".rst"
Set_source_suffix_1 ==
    Assign("source_suffix_1", "master_doc_1", <<"source_suffix">>, ".rst")

\* line 85: master_doc = "index"
Set_master_doc_1 ==
    Assign("master_doc_1", "source_suffix_2", <<"master_doc">>, "index")

\* A mutation of Set_source_suffix_2: the statement is lost, line 82 stands.
Set_source_suffix_2_skipped ==
    /\ pc = "source_suffix_2"
    /\ pc' = "master_doc_2"
    /\ UNCHANGED <<ns, stores, f, exc, io, World>>

\* lines 87-90: source_suffix = {".rst": "restructuredtext", ".md": "markdown"}
Set_source_suffix_2 ==
    Assign("source_suffix_2", "master_doc_2", <<"source_suffix">>,
           (".rst" :> "restructuredtext") @@ (".md" :> "markdown"))

\* line 93: master_doc = "index"
Set_master_doc_2 ==
    Assign("master_doc_2", "myst_enable_extensions", <<"master_doc">>, "index")

\* lines 96-99: myst_enable_extensions = ["replacements", "smartquotes"]
Set_myst_enable_extensions ==
    Assign("myst_enable_extensions", "myst_heading_anchors",
           <<"myst_enable_extensions">>, <<"replacements", "smartquotes">>)

\* line 102: myst_heading_anchors = 3
Set_myst_heading_anchors ==
    Assign("myst_heading_anchors", "suppress_warnings",
           <<"myst_heading_anchors">>, 3)

\* line 105: suppress_warnings = ["myst.xref_missing"]; the module ends.
Set_suppress_warnings ==
    Assign("suppress_warnings", "done", <<"suppress_warnings">>,
           <<"myst.xref_missing">>)

\* The next documentation build: Sphinx executes conf.py afresh, in whatever
\* world it then finds.  The outcome of the build before it is kept.
StartBuild ==
    /\ Terminated
    /\ build < MaxBuilds
    /\ build' = build + 1
    /\ prev' = <<Snapshot>>
    /\ fs' \in Files
    /\ environ' \in Envs
    /\ clock' \in Years
    /\ pc' = "project"
    /\ ns' = NoNames
    /\ f' = NoFile
    /\ exc' = ""
    /\ io' = <<>>
    /\ stores' = <<>>

Next ==
    \/ Set_project
    \/ Set_copyright
    \/ Set_author
    \/ Open_VERSION
    \/ Set_version_file
    \/ Exit_with
    \/ Set_release_version
    \/ Set_switcher_version
    \/ Set_cname
    \/ Set_html_theme
    \/ Set_html_title
    \/ Set_html_logo
    \/ Set_html_favicon
    \/ Set_html_context
    \/ Set_html_theme_options
    \/ Set_extensions
    \/ Set_templates_path
    \/ Set_source_suffix_1
    \/ Set_master_doc_1
    \/ Set_source_suffix_2
    \/ Set_master_doc_2
    \/ Set_myst_enable_extensions
    \/ Set_myst_heading_anchors
    \/ Set_suppress_warnings
    \/ StartBuild

Spec == Init /\ [][Next]_vars

(***************************************************************************)
(* Vocabulary of the properties, stated without the library functions.     *)
(***************************************************************************)

Prev == prev[1]

Bound(name) == name \in DOMAIN ns

\* l is the first line of data, without its line ending.
IsFirstLineOf(l, data) ==
    \E n \in 0..Len(data) :
        /\ l = SubSeq(data, 1, n)
        /\ \A i \in 1..n : data[i] \notin Terminators
        /\ n = Len(data) \/ data[n + 1] \in Terminators

\* v is l without its leading and trailing whitespace.
IsTrimOf(v, l) ==
    \E a, b \in 0..Len(l) :
        /\ a + b <= Len(l)
        /\ v = SubSeq(l, a + 1, Len(l) - b)
        /\ \A i \in 1..a : l[i] \in Whitespace
        /\ \A i \in (Len(l) - b + 1)..Len(l) : l[i] \in Whitespace
        /\ v = <<>> \/ (v[1] \notin Whitespace /\ v[Len(v)] \notin Whitespace)

FirstLineOf(data) ==
    CHOOSE l \in {SubSeq(data, 1, n) : n \in 0..Len(data)} :
        IsFirstLineOf(l, data)

\* The first line of data without its leading and trailing whitespace: from
\* its first to its last character that is not whitespace.
TrimmedFirstLine(data) ==
    LET l == FirstLineOf(data)
        a == CHOOSE i \in 1..(Len(l) + 1) :
                 /\ \A j \in 1..(i - 1) : l[j] \in Whitespace
                 /\ i = Len(l) + 1 \/ l[i] \notin Whitespace
        b == CHOOSE i \in 0..Len(l) :
                 /\ \A j \in (i + 1)..Len(l) : l[j] \in Whitespace
                 /\ i = 0 \/ l[i] \notin Whitespace
    IN  SubSeq(l, a, b)

\* The strings the switcher helper rejects: no "." and no "dev0" ending.
Rejected(v) ==
    /\ \A i \in 1..Len(v) : v[i] # "."
    /\ ~ ( /\ Len(v) >= 4
           /\ v[Len(v) - 3] = "d" /\ v[Len(v) - 2] = "e"
           /\ v[Len(v) - 1] = "v" /\ v[Len(v)] = "0" )

Count(log, x) == Cardinality({i \in 1..Len(log) : log[i] = x})

Ops(op) == Cardinality({i \in 1..Len(io) : io[i].op = op})

BeforeWith == {"project", "copyright", "author", "open"}

InWith == {"readline", "exit_with"}

AfterSuffix2 ==
    {"master_doc_2", "myst_enable_extensions", "myst_heading_anchors",
     "suppress_warnings", "done"}

(***************************************************************************)
(* C1                                                                      *)
(***************************************************************************)

\* C1: for a version file that can be read, once version and release are
\* bound (and so when the load has completed) both equal the first line of
\* the file with its leading and trailing whitespace removed.
C1_VersionIsTrimmedFirstLine ==
    (fs.kind = "text" /\ (Bound("version") \/ Bound("release") \/ pc = "done")) =>
        /\ Bound("version") /\ Bound("release")
        /\ ns["version"] = ns["release"]
        /\ \E l \in {SubSeq(fs.data, 1, n) : n \in 0..Len(fs.data)} :
              IsFirstLineOf(l, fs.data) /\ IsTrimOf(ns["version"], l)

\* A completed load of a file whose first line has whitespace on both sides
\* and which has a second line.
C1_Witness ==
    /\ pc = "done"
    /\ fs.kind = "text"
    /\ Len(fs.data) > 10
    /\ fs.data[1] = " "
    /\ ns["version"] = <<"1", ".", "2", ".", "3">>

(***************************************************************************)
(* C2                                                                      *)
(***************************************************************************)

\* C2: with the version file missing the load never completes: it stops at
\* the open with FileNotFoundError, and none of version, release,
\* switcher_version, cname, html_theme_options is ever bound.
C2_MissingFileFails ==
    fs.kind = "absent" =>
        /\ pc \in BeforeWith \cup {"failed"}
        /\ pc = "failed" => exc = "FileNotFoundError"
        /\ DOMAIN ns \cap {"version_file", "version", "release",
                           "switcher_version", "cname",
                           "html_theme_options"} = {}

\* The load of a missing file has failed.
C2_Witness ==
    /\ fs.kind = "absent"
    /\ pc = "failed"
    /\ exc = "FileNotFoundError"

(***************************************************************************)
(* C3                                                                      *)
(***************************************************************************)

\* C3: with DOCUMENTATION_CNAME unset and a readable version file, the
\* resolved cname is the default literal.
C3_UnsetGivesDefault ==
    (CnameKey \notin DOMAIN environ /\ fs.kind = "text"
        /\ (Bound("cname") \/ pc = "done")) =>
        /\ Bound("cname")
        /\ ns["cname"] = "laughing-guide-5m1lvq6.pages.github.io"

\* A completed load with the variable unset.
C3_Witness ==
    /\ pc = "done"
    /\ CnameKey \notin DOMAIN environ
    /\ fs.kind = "text"

(***************************************************************************)
(* C4                                                                      *)
(***************************************************************************)

\* C4: with DOCUMENTATION_CNAME set to any string, the empty string
\* included, and a readable version file, the resolved cname is that string.
C4_SetGivesValue ==
    (CnameKey \in DOMAIN environ /\ fs.kind = "text"
        /\ (Bound("cname") \/ pc = "done")) =>
        /\ Bound("cname")
        /\ ns["cname"] = environ[CnameKey]
        /\ environ[CnameKey] # DefaultCname => ns["cname"] # DefaultCname

\* A completed load with the variable set to the empty string.
C4_Witness ==
    /\ pc = "done"
    /\ CnameKey \in DOMAIN environ
    /\ environ[CnameKey] = ""
    /\ ns["cname"] = ""

(***************************************************************************)
(* C5                                                                      *)
(***************************************************************************)

\* C5 as stated: a load of a readable version file never fails.
C5_OnlyReadFailures ==
    fs.kind = "text" => pc # "failed"

\* C5 amended: a load fails only at the read of the version file or in
\* get_version_match, which rejects a trimmed first line that has no "." and
\* does not end in "dev0"; every other load runs to completion.
C5_FailsOnlyAtReadOrMatch ==
    /\ pc = "failed" =>
          \/ fs.kind = "absent" /\ exc = "FileNotFoundError"
          \/ fs.kind = "undecodable" /\ exc = "UnicodeDecodeError"
          \/ /\ fs.kind = "text"
             /\ exc = "ValueError"
             /\ Rejected(TrimmedFirstLine(fs.data))
             /\ Bound("version") /\ ~ Bound("switcher_version")
    /\ (fs.kind = "text" /\ ~ Rejected(TrimmedFirstLine(fs.data))) =>
          /\ pc # "failed"
          /\ exc = ""

\* Both halves: a readable file that is rejected, and an empty file.
C5_Witness ==
    /\ pc = "failed"
    /\ fs.kind = "text"
    /\ fs.data = <<>>
    /\ exc = "ValueError"

(***************************************************************************)
(* C6                                                                      *)
(***************************************************************************)

BothLoaded == prev # <<>> /\ pc = "done" /\ Prev.pc = "done"

\* C6 as stated: in two completed loads every value other than version and
\* release is the same.
C6_AllButVersionStatic ==
    BothLoaded =>
        \A n \in DOMAIN ns \ {"version", "release"} : ns[n] = Prev.ns[n]

\* The names whose values come from the version file, the environment or
\* the clock.
InputDerived ==
    {"version_file", "version", "release", "switcher_version", "copyright",
     "cname", "html_theme_options"}

\* C6 amended: in two completed loads every value is the same except
\* version_file, version, release, switcher_version (version file),
\* copyright (year), cname (environment) and the switcher entry of
\* html_theme_options.
C6_StaticValues ==
    BothLoaded =>
        /\ DOMAIN ns = DOMAIN Prev.ns
        /\ \A n \in DOMAIN ns \ InputDerived : ns[n] = Prev.ns[n]
        /\ \A k \in DOMAIN ns["html_theme_options"] \ {"switcher"} :
              ns["html_theme_options"][k] = Prev.ns["html_theme_options"][k]

\* Two completed loads that differ in the file, the environment and the year.
C6_Witness ==
    /\ BothLoaded
    /\ ns["version"] # Prev.ns["version"]
    /\ environ # Prev.environ
    /\ clock # Prev.clock

(***************************************************************************)
(* C7                                                                      *)
(***************************************************************************)

\* The accesses to the version file and the environment that C7 lists.
FileAndEnvOnly(e) ==
    \/ e.op \in {"open(r)", "readline", "close"} /\ e.arg = VersionPath
    \/ e.op = "getenv" /\ e.arg = CnameKey

\* The file is opened at most once, read-only, and is closed once the with
\* block is left, whether the read succeeded or failed; the environment is
\* looked up at most once; a completed load did each exactly once.
ResourceUse ==
    /\ Ops("open(r)") <= 1 /\ Ops("readline") <= 1
    /\ Ops("close") <= 1 /\ Ops("getenv") <= 1
    /\ pc \notin BeforeWith \cup InWith =>
          \/ fs.kind = "absent" /\ f.state = "unbound" /\ Ops("close") = 0
          \/ fs.kind # "absent" /\ f.state = "closed"
                /\ Ops("open(r)") = 1 /\ Ops("readline") = 1 /\ Ops("close") = 1
    /\ pc = "failed" /\ fs.kind = "undecodable" => f.state = "closed"
    /\ pc = "done" => Ops("getenv") = 1

\* No step of a load changes the file or the environment.
WorldUntouched ==
    build' = build => fs' = fs /\ environ' = environ

\* C7 as stated: the version file and the one environment variable are the
\* only external state a load touches.
C7_TwoResourcesOnly ==
    /\ [](ResourceUse /\ \A i \in 1..Len(io) : FileAndEnvOnly(io[i]))
    /\ [][WorldUntouched]_vars

\* C7 amended: besides the version file and the environment variable the
\* load reads the clock, once (datetime.now() for the copyright year).
C7_ResourcesAndClock ==
    /\ [](/\ ResourceUse
          /\ \A i \in 1..Len(io) :
                FileAndEnvOnly(io[i]) \/ (io[i].op = "now" /\ io[i].arg = "clock")
          /\ Ops("now") <= 1
          /\ pc \notin {"project", "copyright"} => Ops("now") = 1)
    /\ [][WorldUntouched]_vars

\* A load whose read failed after the file was opened, the file closed again.
C7_Witness ==
    /\ pc = "failed"
    /\ fs.kind = "undecodable"
    /\ f.state = "closed"
    /\ Ops("open(r)") = 1

(***************************************************************************)
(* C8                                                                      *)
(***************************************************************************)

\* C8: after a completed load the switcher's json_url is "https://" + cname +
\* "/versions.json" for the cname resolved from the environment, and its
\* version_match is what get_version_match returns for the string version
\* and release hold.
C8_SwitcherConsistent ==
    (Bound("html_theme_options") \/ pc = "done") =>
        LET switcher == ns["html_theme_options"]["switcher"] IN
        /\ switcher.json_url = "https://" \o ns["cname"] \o "/versions.json"
        /\ ns["cname"] = IF CnameKey \in DOMAIN environ
                         THEN environ[CnameKey] ELSE DefaultCname
        /\ ns["version"] = ns["release"]
        /\ get_version_match(ns["version"]).raised = ""
        /\ switcher.version_match = get_version_match(ns["version"]).value
        /\ switcher.version_match = ns["switcher_version"]

\* A completed load with the variable set and a three-part version.
C8_Witness ==
    /\ pc = "done"
    /\ CnameKey \in DOMAIN environ
    /\ environ[CnameKey] # ""
    /\ ns["version"] = <<"1", ".", "2", ".", "3">>
    /\ ns["html_theme_options"]["switcher"].version_match = <<"1", ".", "2">>

(***************************************************************************)
(* C9                                                                      *)
(***************************************************************************)

\* C9: source_suffix and master_doc are each assigned twice, alternately;
\* between its two assignments source_suffix is ".rst", after the second it
\* is the mapping, and master_doc is "index".
C9_LaterAssignmentWins ==
    /\ pc \in {"master_doc_1", "source_suffix_2"} =>
          /\ Count(stores, "source_suffix") = 1
          /\ ns["source_suffix"] = ".rst"
    /\ pc \in AfterSuffix2 =>
          /\ Count(stores, "source_suffix") = 2
          /\ DOMAIN ns["source_suffix"] = {".rst", ".md"}
          /\ ns["source_suffix"][".rst"] = "restructuredtext"
          /\ ns["source_suffix"][".md"] = "markdown"
    /\ pc = "done" =>
          /\ Count(stores, "master_doc") = 2
          /\ ns["master_doc"] = "index"
          /\ \E i \in 1..(Len(stores) - 3) :
                SubSeq(stores, i, i + 3) =
                    <<"source_suffix", "master_doc", "source_suffix", "master_doc">>

\* A completed load.
C9_Witness ==
    /\ pc = "done"
    /\ Count(stores, "source_suffix") = 2
    /\ Count(stores, "master_doc") = 2

(***************************************************************************)
(* C10                                                                     *)
(***************************************************************************)

SameFirstLine ==
    /\ prev # <<>>
    /\ Terminated
    /\ fs.kind = "text" /\ Prev.fs.kind = "text"
    /\ TrimmedFirstLine(fs.data) = TrimmedFirstLine(Prev.fs.data)
    /\ environ = Prev.environ

\* C10: two loads of readable version files whose first lines are equal
\* after trimming, under the same environment, end alike and yield the same
\* version, release, switcher_version and html_theme_options, whatever the
\* later lines hold.
C10_OnlyFirstLineMatters ==
    SameFirstLine =>
        /\ pc = Prev.pc
        /\ \A n \in {"version", "release", "switcher_version",
                     "html_theme_options"} :
              /\ Bound(n) <=> n \in DOMAIN Prev.ns
              /\ Bound(n) => ns[n] = Prev.ns[n]

\* Two completed loads of different files with the same trimmed first line,
\* one of them with a second line.
C10_Witness ==
    /\ SameFirstLine
    /\ pc = "done"
    /\ fs.data # Prev.fs.data
    /\ Len(fs.data) > Len(Prev.fs.data) + 3

====
